---- MODULE Spec2Model ----
(***************************************************************************)
(* Model of the pension-ceiling pipeline of analysis_pension_ceilings:     *)
(* pipeline_clean -> pipeline_preprocess -> pipeline_postprocess and the   *)
(* totals, run on the loaded spreadsheet extract (Spec); extract_numbers   *)
(* on its own (SpecExtract); invocations of the dashboard handler on the   *)
(* shared dataset (SpecConcurrent); the download command (SpecDownload).   *)
(*                                                                         *)
(* A DataFrame is a record [columns, dtypes, rows]: columns is the         *)
(* sequence of column names, dtypes the sequence of their dtypes, rows the *)
(* sequence of rows, each row a function from the column names to cells.   *)
(* A text cell is a string, an empty cell is NULL.                         *)
(* A Float64 cell is an exact rational [n, d] in lowest terms (d > 0), or  *)
(* Inf (d = 0); float rounding is not modelled.                            *)
(***************************************************************************)
EXTENDS Integers, Sequences, FiniteSets, TLC

VARIABLES df, stage, err, n_first, n_last, average_open_ended, ceiling,
          nbr_pensioners, df_clean, df_pre, df_post, text, numbers,
          summary, stats, calls, dl

vars == <<df, stage, err, n_first, n_last, average_open_ended, ceiling,
          nbr_pensioners, df_clean, df_pre, df_post, text, numbers,
          summary, stats, calls, dl>>

pipeVars == <<df, stage, err, n_first, n_last, average_open_ended, ceiling,
              nbr_pensioners, df_clean, df_pre, df_post>>

-----------------------------------------------------------------------------
(* Bounds of the model *)

MaxRows == 4

MaxNFirst == 3

MaxNLast == 2

MaxTextLen == 7

\* Invocations of pipeline_statistics_pension_ceilings in flight together.
MaxCalls == 2

-----------------------------------------------------------------------------
(* Values *)

NULL == "<null>"

NoFrame == [columns |-> <<>>, dtypes |-> <<>>, rows |-> <<>>]

Max(a, b) == IF a >= b THEN a ELSE b

Min(a, b) == IF a <= b THEN a ELSE b

Abs(a) == IF a < 0 THEN -a ELSE a

RECURSIVE GCD(_, _)
GCD(a, b) == IF b = 0 THEN a ELSE GCD(b, a % b)

\* The float n/d, in lowest terms with a positive denominator.
Rat(n, d) ==
    LET s == IF d < 0 THEN -1 ELSE 1
        g == GCD(Abs(n), Abs(d))
    IN  [n |-> (s * n) \div g, d |-> (s * d) \div g]

FromInt(i) == [n |-> i, d |-> 1]

Inf == [n |-> 1, d |-> 0]

IsFinite(x) == x.d # 0

RatAdd(x, y) == Rat(x.n * y.d + y.n * x.d, x.d * y.d)

RatSub(x, y) == Rat(x.n * y.d - y.n * x.d, x.d * y.d)

RatMul(x, y) == Rat(x.n * y.n, x.d * y.d)

RatDiv(x, y) == Rat(x.n * y.d, x.d * y.n)

\* x > y, for y finite.
RatGt(x, y) == IF IsFinite(x) THEN x.n * y.d > y.n * x.d ELSE x.n > 0

RatLe(x, y) == ~RatGt(x, y)

\* Truncation toward zero of a finite float.
Trunc(x) == IF x.n >= 0 THEN x.n \div x.d ELSE -((-x.n) \div x.d)

-----------------------------------------------------------------------------
(* Text: TLC cannot index a string, so the characters of every text the   *)
(* model feeds to the pipeline are listed here.                           *)

LabelKey == "Montant\r\nde pension\r\n(en euros)"

Chars(s) ==
    CASE s = "1-2"   -> <<"1", "-", "2">>
      [] s = "2-3"   -> <<"2", "-", "3">>
      [] s = "plus"  -> <<"p", "l", "u", "s">>
      [] s = ""      -> <<>>
      [] s = "60"    -> <<"6", "0">>
      [] s = "40"    -> <<"4", "0">>
      [] s = "2.5"   -> <<"2", ".", "5">>
      [] s = "n.d."  -> <<"n", ".", "d", ".">>
      [] s = "7"     -> <<"7">>
      [] s = "Tableau"  -> <<"T", "a", "b", "l", "e", "a", "u">>
      [] s = "Hommes"   -> <<"H", "o", "m", "m", "e", "s">>
      [] s = "Ensemble" -> <<"E", "n", "s", "e", "m", "b", "l", "e">>
      [] s = LabelKey   -> <<"M", "o", "n", "t", "a", "n", "t", "\r", "\n",
                             "d", "e", " ", "p", "e", "n", "s", "i", "o", "n",
                             "\r", "\n", "(", "e", "n", " ", "e", "u", "r",
                             "o", "s", ")">>

Digits == {"0", "1", "2", "3", "4", "5", "6", "7", "8", "9"}

DigitVal(c) ==
    CASE c = "0" -> 0 [] c = "1" -> 1 [] c = "2" -> 2 [] c = "3" -> 3
      [] c = "4" -> 4 [] c = "5" -> 5 [] c = "6" -> 6 [] c = "7" -> 7
      [] c = "8" -> 8 [] c = "9" -> 9

\* int(s) of a string of digits.
RECURSIVE ToInt(_)
ToInt(cs) ==
    IF cs = <<>> THEN 0
    ELSE 10 * ToInt(SubSeq(cs, 1, Len(cs) - 1)) + DigitVal(cs[Len(cs)])

-----------------------------------------------------------------------------
(* process/node/preprocess.py *)

\* The {1,6} of the pattern \d{1,6}.
PatternMaxDigits == 6

\* MatchLen for the pattern \d+: the whole run of digits from position i.
MatchLenWholeRun(cs, i) ==
    CHOOSE k \in 1..(Len(cs) - i + 1) :
        /\ \A j \in i..(i + k - 1) : cs[j] \in Digits
        /\ i + k - 1 = Len(cs) \/ cs[i + k] \notin Digits

\* Length of the greedy match of \d{1,6} at position i of cs (cs[i] a digit).
MatchLen(cs, i) ==
    LET most == Min(PatternMaxDigits, Len(cs) - i + 1)
    IN  CHOOSE k \in 1..most :
            /\ \A j \in i..(i + k - 1) : cs[j] \in Digits
            /\ k = most \/ cs[i + k] \notin Digits

\* re.findall(pattern, text): the non-overlapping matches, scanning from i.
RECURSIVE FindAll(_, _)
FindAll(cs, i) ==
    IF i > Len(cs) THEN <<>>
    ELSE IF cs[i] \notin Digits THEN FindAll(cs, i + 1)
    ELSE LET k == MatchLen(cs, i)
         IN  <<SubSeq(cs, i, i + k - 1)>> \o FindAll(cs, i + k)

\* extract_numbers: the matched strings ("if text else []").
extract_numbers(cs) == IF cs = <<>> THEN <<>> ELSE FindAll(cs, 1)

\* node_extract_numbers on one cell: the matches, each through int().
\* (The cast to Float32 is exact: a match has at most 6 digits.)
ExtractedNumbers(cs) ==
    LET m == extract_numbers(cs) IN [k \in 1..Len(m) |-> ToInt(m[k])]

RECURSIVE SumSeq(_)
SumSeq(s) == IF s = <<>> THEN 0 ELSE s[1] + SumSeq(Tail(s))

\* statistics_mean giving 0 for an empty list instead of raising.
statistics_mean_default(s) ==
    IF s = <<>> THEN [ok |-> TRUE, val |-> FromInt(0)]
    ELSE [ok |-> TRUE, val |-> Rat(SumSeq(s), Len(s))]

\* statistics.mean: the exact mean; it raises StatisticsError on an empty
\* list (ok is FALSE).
statistics_mean(s) ==
    IF s = <<>> THEN [ok |-> FALSE, val |-> FromInt(0)]
    ELSE [ok |-> TRUE, val |-> Rat(SumSeq(s), Len(s))]

\* node_average_list_numbers on one cell.
node_average_list_numbers(s) == statistics_mean(s)

\* Cast of a text cell to Float64: decimal digits with an optional fraction.
\* ok is FALSE where the strict cast fails.
ParseFloat(cs) ==
    LET dots == {i \in 1..Len(cs) : cs[i] = "."}
        dot  == IF dots = {} THEN Len(cs) + 1 ELSE CHOOSE i \in dots : TRUE
        ip   == SubSeq(cs, 1, dot - 1)
        fp   == SubSeq(cs, dot + 1, Len(cs))
        allDigits(x) == \A i \in 1..Len(x) : x[i] \in Digits
        ok   == /\ Cardinality(dots) <= 1
                /\ ip # <<>> /\ allDigits(ip) /\ allDigits(fp)
                /\ dots = {} \/ fp # <<>>
        RECURSIVE Pow10(_)
        Pow10(k) == IF k = 0 THEN 1 ELSE 10 * Pow10(k - 1)
    IN  IF ok THEN [ok |-> TRUE, val |-> Rat(ToInt(ip \o fp), Pow10(Len(fp)))]
        ELSE [ok |-> FALSE, val |-> FromInt(0)]

-----------------------------------------------------------------------------
(* process/node/clean.py *)

Range(f) == {f[x] : x \in DOMAIN f}

\* DataFrame.tail(n): the last n rows; all but the first -n rows when n < 0.
df_tail(rows, n) ==
    LET h == Len(rows)
        k == IF n < 0 THEN Max(0, h + n) ELSE Min(n, h)
    IN  SubSeq(rows, h - k + 1, h)

\* DataFrame.head(n): the first n rows; all but the last -n rows when n < 0.
df_head(rows, n) ==
    LET h == Len(rows)
        k == IF n < 0 THEN Max(0, h + n) ELSE Min(n, h)
    IN  SubSeq(rows, 1, k)

node_drop_lines(d, nf, nl) ==
    LET r1 == df_tail(d.rows, Len(d.rows) - nf)
        r2 == df_head(r1, Len(r1) - nl)
    IN  [d EXCEPT !.rows = r2]

\* f"{v}" of a cell.
Str(v) == IF v = NULL THEN "None" ELSE v

Ok(d) == [err |-> "none", df |-> d]

Fail(e) == [err |-> e, df |-> NoFrame]

\* DataFrame.rename(mapping): every key must name a column, and the new
\* names must be distinct.
df_rename(d, mapping) ==
    LET new(c) == IF c \in DOMAIN mapping THEN mapping[c] ELSE c
        cols   == [i \in 1..Len(d.columns) |-> new(d.columns[i])]
        old(c) == CHOOSE o \in Range(d.columns) : new(o) = c
    IN  IF \E k \in DOMAIN mapping : k \notin Range(d.columns)
          THEN Fail("ColumnNotFoundError")
        ELSE IF Cardinality(Range(cols)) # Len(cols)
          THEN Fail("DuplicateError")
        ELSE Ok([columns |-> cols,
                 dtypes |-> d.dtypes,
                 rows |-> [i \in 1..Len(d.rows) |->
                             [c \in Range(cols) |-> d.rows[i][old(c)]]]])

\* The dtype of column c of d.
DTypeOf(d, c) ==
    d.dtypes[CHOOSE i \in 1..Len(d.columns) : d.columns[i] = c]

\* df[[...]]: the named columns, in the order asked.
df_select(d, names) ==
    IF \E i \in 1..Len(names) : names[i] \notin Range(d.columns)
      THEN Fail("ColumnNotFoundError")
    ELSE Ok([columns |-> names,
             dtypes |-> [i \in 1..Len(names) |-> DTypeOf(d, names[i])],
             rows |-> [i \in 1..Len(d.rows) |->
                         [c \in Range(names) |-> d.rows[i][c]]]])

\* node_refresh_header that leaves the promoted row among the data.
node_refresh_header_keep(d) ==
    IF Len(d.rows) = 0 THEN Fail("IndexError")
    ELSE LET line == [c \in Range(d.columns) |-> Str(d.rows[1][c])]
         IN  df_rename(d, line)

node_refresh_header(d) ==
    IF Len(d.rows) = 0 THEN Fail("IndexError")
    ELSE LET line == [c \in Range(d.columns) |-> Str(d.rows[1][c])]
             rest == df_tail(d.rows, Len(d.rows) - 1)
         IN  df_rename([d EXCEPT !.rows = rest], line)

-----------------------------------------------------------------------------
(* process/pipeline/clean.py *)

MAPPING_COLUMNS == (LabelKey :> "slice_amount") @@ ("Ensemble" :> "percentage")

\* CleanSchemaOk without unique=True on slice_amount.
CleanSchemaNoUnique(d) ==
    /\ {"slice_amount", "percentage"} \subseteq Range(d.columns)
    /\ DTypeOf(d, "slice_amount") = "String"
    /\ DTypeOf(d, "percentage") = "String"
    /\ \A i \in 1..Len(d.rows) :
          d.rows[i].slice_amount # NULL /\ d.rows[i].percentage # NULL

\* OutputSchema of clean.py: two str columns, no null, slice_amount unique.
CleanSchemaOk(d) ==
    /\ {"slice_amount", "percentage"} \subseteq Range(d.columns)
    /\ DTypeOf(d, "slice_amount") = "String"
    /\ DTypeOf(d, "percentage") = "String"
    /\ \A i \in 1..Len(d.rows) :
          d.rows[i].slice_amount # NULL /\ d.rows[i].percentage # NULL
    /\ \A i, j \in 1..Len(d.rows) :
          i # j => d.rows[i].slice_amount # d.rows[j].slice_amount

pipeline_clean(d, nf, nl) ==
    LET r1 == node_refresh_header(node_drop_lines(d, nf, nl))
        r2 == df_rename(r1.df, MAPPING_COLUMNS)
        r3 == df_select(r2.df, <<"slice_amount", "percentage">>)
    IN  IF r1.err # "none" THEN r1
        ELSE IF r2.err # "none" THEN r2
        ELSE IF r3.err # "none" THEN r3
        ELSE IF ~CleanSchemaOk(r3.df) THEN Fail("SchemaError")
        ELSE r3

-----------------------------------------------------------------------------
(* process/pipeline/preprocess.py *)

\* SetLast writing the first row instead: df[0, "average_pension"] = value.
SetFirst(rows, v) == [rows EXCEPT ![1].average_pension = v]

\* df[-1, "average_pension"] = value, on a frame with at least one row.
SetLast(rows, v) == [rows EXCEPT ![Len(rows)].average_pension = v]

\* OutputSchema of preprocess.py: two float columns.
PreSchemaOk(d) ==
    /\ {"percentage", "average_pension"} \subseteq Range(d.columns)
    /\ DTypeOf(d, "percentage") = "Float64"
    /\ DTypeOf(d, "average_pension") = "Float64"

pipeline_preprocess(d, aoe) ==
    LET h     == Len(d.rows)
        pct   == [i \in 1..h |-> ParseFloat(Chars(d.rows[i].percentage))]
        nums  == [i \in 1..h |-> ExtractedNumbers(Chars(d.rows[i].slice_amount))]
        avg   == [i \in 1..h |-> node_average_list_numbers(nums[i])]
        rows  == [i \in 1..h |->
                    [percentage |-> pct[i].val, average_pension |-> avg[i].val]]
    IN  IF ~CleanSchemaOk(d) THEN Fail("SchemaError")
        ELSE IF \E i \in 1..h : ~pct[i].ok THEN Fail("InvalidOperationError")
        ELSE IF \E i \in 1..h : ~avg[i].ok THEN Fail("StatisticsError")
        ELSE IF h = 0 THEN Fail("OutOfBoundsError")
        ELSE Ok([columns |-> <<"percentage", "average_pension">>,
                 dtypes |-> <<"Float64", "Float64">>,
                 rows |-> SetLast(rows, aoe)])

-----------------------------------------------------------------------------
(* process/pipeline/postprocess.py *)

Int32Max == 2147483647

\* Excess with the sign of the difference lost.
ExcessAbs(avg, c) ==
    IF ~IsFinite(avg) THEN Inf
    ELSE LET x == RatSub(avg, FromInt(c)) IN [x EXCEPT !.n = Abs(x.n)]

\* when(average_pension - ceiling > 0).then(average_pension - ceiling)
\* .otherwise(0), before the cast.
Excess(avg, c) ==
    IF RatGt(avg, FromInt(c))
      THEN (IF IsFinite(avg) THEN RatSub(avg, FromInt(c)) ELSE Inf)
      ELSE FromInt(0)

\* The strict cast to Int32 succeeds on a finite value in range.
FitsInt32(x) ==
    IsFinite(x) /\ Trunc(x) >= -Int32Max - 1 /\ Trunc(x) <= Int32Max

\* AverageBenefits rounding half up instead of truncating.
AverageBenefitsRounded(avg, c) == Trunc(RatAdd(Excess(avg, c), Rat(1, 2)))

\* The average_benefits cell: the excess cast to Int32.
AverageBenefits(avg, c) == Trunc(Excess(avg, c))

\* PostRow with number_pensioners = percentage * nbr_pensioners, the
\* division by 100 left out.
PostRowFraction(r, c, nbr) ==
    LET np == RatMul(r.percentage, FromInt(nbr))
        ab == AverageBenefits(r.average_pension, c)
    IN  [percentage |-> r.percentage,
         average_pension |-> r.average_pension,
         number_pensioners |-> np,
         average_benefits |-> ab,
         total_average_benefits |-> RatMul(FromInt(ab), np),
         total_average_pension |-> RatMul(r.average_pension, np),
         average_pension_after_ceiling |->
             RatSub(r.average_pension, FromInt(ab))]

\* One row through the with_columns of pipeline_postprocess.
PostRow(r, c, nbr) ==
    LET np == RatMul(RatDiv(r.percentage, FromInt(100)), FromInt(nbr))
        ab == AverageBenefits(r.average_pension, c)
    IN  [percentage |-> r.percentage,
         average_pension |-> r.average_pension,
         number_pensioners |-> np,
         average_benefits |-> ab,
         total_average_benefits |-> RatMul(FromInt(ab), np),
         total_average_pension |-> RatMul(r.average_pension, np),
         average_pension_after_ceiling |->
             RatSub(r.average_pension, FromInt(ab))]

\* OutputSchema of postprocess.py: six float columns and the int column
\* average_benefits (Int64 for pandera), no null.
PostSchemaOk(d) ==
    /\ \A c \in {"percentage", "average_pension", "number_pensioners",
                  "total_average_benefits", "total_average_pension",
                  "average_pension_after_ceiling"} :
          c \in Range(d.columns) /\ DTypeOf(d, c) = "Float64"
    /\ "average_benefits" \in Range(d.columns)
    /\ DTypeOf(d, "average_benefits") = "Int64"

\* The function is not decorated with check_types: neither its argument nor
\* its result is validated.  A missing column, or arithmetic on a str column,
\* is the error of the frame operation that meets it.
pipeline_postprocess(d, c, nbr) ==
    IF "percentage" \notin Range(d.columns)
      THEN Fail("ColumnNotFoundError")
    ELSE IF DTypeOf(d, "percentage") = "String"
      THEN Fail("InvalidOperationError")
    ELSE IF "average_pension" \notin Range(d.columns)
      THEN Fail("ColumnNotFoundError")
    ELSE IF \E i \in 1..Len(d.rows) :
               ~FitsInt32(Excess(d.rows[i].average_pension, c))
      THEN Fail("InvalidOperationError")
    ELSE Ok([columns |-> <<"percentage", "average_pension", "number_pensioners",
                           "average_benefits", "total_average_benefits",
                           "total_average_pension",
                           "average_pension_after_ceiling">>,
             dtypes |-> <<"Float64", "Float64", "Float64", "Int32", "Float64",
                          "Float64", "Float64">>,
             rows |-> [i \in 1..Len(d.rows) |-> PostRow(d.rows[i], c, nbr)]])

-----------------------------------------------------------------------------
(* blocks.py: the totals of pipeline_statistics_pension_ceilings *)

\* The factor from a monthly to a yearly total.
MonthsPerYear == 12

\* Series.sum() of the float column c.
RECURSIVE SumRows(_, _)
SumRows(rows, c) ==
    IF rows = <<>> THEN FromInt(0)
    ELSE RatAdd(rows[1][c], SumRows(Tail(rows), c))

NoSummary ==
    [err |-> "not run", total_pension |-> FromInt(0),
     total_benefits |-> FromInt(0), percentage_benefits |-> FromInt(0)]

\* summary_totals giving a ratio of 0 on a zero total instead of raising.
summary_totals_default(d) ==
    LET total_pension  == RatMul(SumRows(d.rows, "total_average_pension"),
                                 FromInt(MonthsPerYear))
        total_benefits == RatMul(SumRows(d.rows, "total_average_benefits"),
                                 FromInt(MonthsPerYear))
    IN  [err |-> "none",
         total_pension |-> total_pension,
         total_benefits |-> total_benefits,
         percentage_benefits |->
             IF total_pension.n = 0 THEN FromInt(0)
             ELSE RatDiv(total_benefits, total_pension)]

\* total_pension, total_benefits (the sums times 12) and their ratio; the
\* division of two Python floats raises ZeroDivisionError on a zero divisor.
summary_totals(d) ==
    LET total_pension  == RatMul(SumRows(d.rows, "total_average_pension"),
                                 FromInt(MonthsPerYear))
        total_benefits == RatMul(SumRows(d.rows, "total_average_benefits"),
                                 FromInt(MonthsPerYear))
    IN  IF total_pension.n = 0
          THEN [NoSummary EXCEPT !.err = "ZeroDivisionError"]
        ELSE [err |-> "none",
              total_pension |-> total_pension,
              total_benefits |-> total_benefits,
              percentage_benefits |-> RatDiv(total_benefits, total_pension)]

-----------------------------------------------------------------------------
(* process.py *)

NoStatistics ==
    [err |-> "not run", total_benefits_month |-> FromInt(0),
     total_benefits_year |-> FromInt(0), total_pension_month |-> FromInt(0),
     total_pension_year |-> FromInt(0), percentage_benefits |-> FromInt(0)]

\* The parameters of pipeline_postprocess.
PostprocessParameters == {"df", "ceiling", "nbr_pensioners"}

\* The keyword arguments calcul_statistics_pension_ceilings passes to it.
PostprocessKeywords == {"ceiling", "average_open_ended", "nbr_pensioners"}

\* calcul_statistics_pension_ceilings: a call with a keyword that names no
\* parameter raises TypeError before the callee runs.
calcul_statistics_pension_ceilings(d, c, aoe, nbr) ==
    IF ~(PostprocessKeywords \subseteq PostprocessParameters)
      THEN [NoStatistics EXCEPT !.err = "TypeError"]
    ELSE LET r == pipeline_postprocess(d, c, nbr)
             total_pension  == SumRows(r.df.rows, "total_average_pension")
             total_benefits == SumRows(r.df.rows, "total_average_benefits")
         IN  IF r.err # "none" THEN [NoStatistics EXCEPT !.err = r.err]
             ELSE IF total_pension.n = 0
               THEN [NoStatistics EXCEPT !.err = "ZeroDivisionError"]
             ELSE [err |-> "none",
                   total_benefits_month |-> total_benefits,
                   total_benefits_year |->
                       RatMul(total_benefits, FromInt(MonthsPerYear)),
                   total_pension_month |-> total_pension,
                   total_pension_year |->
                       RatMul(total_pension, FromInt(MonthsPerYear)),
                   percentage_benefits |->
                       RatDiv(total_benefits, total_pension)]

NoCalls == <<>>

\* The default n_first and n_last of pipeline_clean.
DefaultNFirst == 1

DefaultNLast == 6

\* call_pipeline_clean dropping the rows in the frame it is given.
call_pipeline_clean_inplace(d) ==
    [ret |-> pipeline_clean(d, DefaultNFirst, DefaultNLast),
     arg |-> node_drop_lines(d, DefaultNFirst, DefaultNLast)]

\* pipeline_clean(df) as called by pipeline_statistics_pension_ceilings, with
\* what the call leaves in the frame it is given: tail, head, rename and the
\* selection each return a new frame, the argument keeps its rows.
call_pipeline_clean(d) ==
    [ret |-> pipeline_clean(d, DefaultNFirst, DefaultNLast), arg |-> d]

\* pipeline_preprocess: the assignment df[-1, "average_pension"] = ... acts on
\* the frame df.select returned, not on the argument.
call_pipeline_preprocess(d, aoe) ==
    [ret |-> pipeline_preprocess(d, aoe), arg |-> d]

\* pipeline_postprocess: with_columns returns a new frame.
call_pipeline_postprocess(d, c, nbr) ==
    [ret |-> pipeline_postprocess(d, c, nbr), arg |-> d]

\* pipeline_statistics_pension_ceilings run on its own on the dataset d: the
\* totals, or the error of the stage that raised.
pipeline_statistics_pension_ceilings(d, c, aoe, nbr) ==
    LET r1 == pipeline_clean(d, DefaultNFirst, DefaultNLast)
        r2 == pipeline_preprocess(r1.df, aoe)
        r3 == pipeline_postprocess(r2.df, c, nbr)
    IN  IF r1.err # "none" THEN [NoSummary EXCEPT !.err = r1.err]
        ELSE IF r2.err # "none" THEN [NoSummary EXCEPT !.err = r2.err]
        ELSE IF r3.err # "none" THEN [NoSummary EXCEPT !.err = r3.err]
        ELSE summary_totals(r3.df)

-----------------------------------------------------------------------------
(* download.py and the download command of cli.py *)

NoDownload == [pc |-> "idle"]

\* A file that does not exist.
Absent == "<absent>"

\* What requests.get(url, timeout=10) meets: an exception of the request, or
\* a response with a status and a content.
Responses ==
    {[exc |-> "ConnectionError", status |-> 0, content |-> ""],
     [exc |-> "Timeout", status |-> 0, content |-> ""],
     [exc |-> "none", status |-> 404, content |-> "not found"],
     [exc |-> "none", status |-> 500, content |-> "server error"],
     [exc |-> "none", status |-> 200, content |-> "xlsx"],
     [exc |-> "none", status |-> 200, content |-> "html"]}

\* response.raise_for_status() raises HTTPError for a 4xx or 5xx status.
RaisesForStatus(resp) == resp.status >= 400 /\ resp.status < 600

\* The request ends in a requests.exceptions.RequestException.
RequestFails(resp) == resp.exc # "none" \/ RaisesForStatus(resp)

\* download_excel_from_url: the except clause prints the failure and the
\* function returns normally.
download_excel_from_url(files, filename, resp) ==
    IF RequestFails(resp)
      THEN [files |-> files, raised |-> "none", printed |-> "failed"]
    ELSE [files |-> [files EXCEPT ![filename] = resp.content],
          raised |-> "none", printed |-> "saved"]

\* The download command: FileExistsError when the path exists, else the
\* download, then the log of success when the call returned.
download(files, filename, resp) ==
    IF files[filename] # Absent
      THEN [pc |-> "done", before |-> files, files |-> files,
            filename |-> filename, response |-> resp, requests |-> 0,
            raised |-> "FileExistsError", printed |-> "none",
            logged_success |-> FALSE]
    ELSE LET r == download_excel_from_url(files, filename, resp)
         IN  [pc |-> "done", before |-> files, files |-> r.files,
              filename |-> filename, response |-> resp, requests |-> 1,
              raised |-> r.raised, printed |-> r.printed,
              logged_success |-> r.raised = "none"]

-----------------------------------------------------------------------------
(* The inputs *)

RawColumns == <<"c1", "c2", "c3">>

RawRow(a, b, c) == [c1 |-> a, c2 |-> b, c3 |-> c]

\* Rows of the sheet: a banner or footnote, the header, two brackets, a
\* bracket without digits, one with an empty label, one whose percentage is
\* not a number.
RowPool ==
    { RawRow("Tableau", NULL, NULL),
      RawRow(LabelKey, "Hommes", "Ensemble"),
      RawRow("1-2", "50", "60"),
      RawRow("2-3", "50", "40"),
      RawRow("plus", "50", "2.5"),
      RawRow("", "50", "40"),
      RawRow("7", "50", "n.d.") }

RECURSIVE SeqsUpTo(_, _)
SeqsUpTo(S, n) ==
    IF n = 0 THEN {<<>>}
    ELSE LET shorter == SeqsUpTo(S, n - 1)
         IN  shorter \cup {Append(s, x) : s \in shorter, x \in S}

RawDTypes == <<"String", "String", "String">>

RawTables ==
    {[columns |-> RawColumns, dtypes |-> RawDTypes, rows |-> r] :
        r \in SeqsUpTo(RowPool, MaxRows)}

AverageOpenEndedSet == {FromInt(-1), FromInt(0), Rat(5, 2), FromInt(8), Inf}

CeilingSet == {-1, 0, 2}

NbrPensionersSet == {100, 200}

TextAlphabet == {"0", "7", "-"}

Texts == SeqsUpTo(TextAlphabet, MaxTextLen)

-----------------------------------------------------------------------------
(* The pipeline as run by pipeline_statistics_pension_ceilings (blocks.py) *)

Init ==
    /\ df \in RawTables
    /\ stage = "loaded"
    /\ err = "none"
    /\ n_first = 1
    /\ n_last = 6
    /\ average_open_ended = FromInt(8000)
    /\ ceiling = 2000
    /\ nbr_pensioners = 14900000
    /\ df_clean = NoFrame
    /\ df_pre = NoFrame
    /\ df_post = NoFrame
    /\ text = <<>>
    /\ numbers = <<>>
    /\ summary = NoSummary
    /\ stats = NoStatistics
    /\ calls = NoCalls
    /\ dl = NoDownload

Clean ==
    /\ stage = "loaded"
    /\ \E nf \in 0..MaxNFirst, nl \in 0..MaxNLast :
          LET r == pipeline_clean(df, nf, nl)
          IN  /\ n_first' = nf
              /\ n_last' = nl
              /\ err' = r.err
              /\ df_clean' = r.df
              /\ stage' = IF r.err = "none" THEN "cleaned" ELSE "failed"
    /\ UNCHANGED <<df, average_open_ended, ceiling, nbr_pensioners, df_pre,
                   df_post, text, numbers, summary, stats, calls, dl>>

Preprocess ==
    /\ stage = "cleaned"
    /\ \E aoe \in AverageOpenEndedSet :
          LET r == pipeline_preprocess(df_clean, aoe)
          IN  /\ average_open_ended' = aoe
              /\ err' = r.err
              /\ df_pre' = r.df
              /\ stage' = IF r.err = "none" THEN "preprocessed" ELSE "failed"
    /\ UNCHANGED <<df, n_first, n_last, ceiling, nbr_pensioners, df_clean,
                   df_post, text, numbers, summary, stats, calls, dl>>

\* pipeline_postprocess is pure: it may be run again on the same statistics
\* with another ceiling.
Postprocess ==
    /\ stage \in {"preprocessed", "postprocessed"}
    /\ \E c \in CeilingSet, nbr \in NbrPensionersSet :
          LET r == pipeline_postprocess(df_pre, c, nbr)
          IN  /\ ceiling' = c
              /\ nbr_pensioners' = nbr
              /\ err' = r.err
              /\ df_post' = r.df
              /\ stage' = IF r.err = "none" THEN "postprocessed" ELSE "failed"
    /\ UNCHANGED <<df, n_first, n_last, average_open_ended, df_clean, df_pre,
                   text, numbers, summary, stats, calls, dl>>

\* pipeline_postprocess called, with its default ceiling and population, on
\* the table pipeline_clean returned: a table without the columns of the
\* statistics.
PostprocessRecords ==
    /\ stage = "cleaned"
    /\ LET r == pipeline_postprocess(df_clean, ceiling, nbr_pensioners)
       IN  /\ err' = r.err
           /\ df_post' = r.df
           /\ stage' = IF r.err = "none" THEN "postprocessed"
                       ELSE "postprocess_failed"
    /\ UNCHANGED <<df, n_first, n_last, average_open_ended, ceiling,
                   nbr_pensioners, df_clean, df_pre, text, numbers, summary,
                   stats, calls, dl>>

\* calcul_statistics_pension_ceilings called on the table of statistics.
CalculStatistics ==
    /\ stage = "preprocessed"
    /\ \E c \in CeilingSet, nbr \in NbrPensionersSet :
          LET r == calcul_statistics_pension_ceilings(
                       df_pre, c, average_open_ended, nbr)
          IN  /\ ceiling' = c
              /\ nbr_pensioners' = nbr
              /\ stats' = r
              /\ err' = r.err
              /\ stage' = IF r.err = "none" THEN "statistics"
                          ELSE "statistics_failed"
    /\ UNCHANGED <<df, n_first, n_last, average_open_ended, df_clean, df_pre,
                   df_post, text, numbers, summary, calls, dl>>

\* Lines 66-68 of blocks.py, on the table pipeline_postprocess returned.
Summarize ==
    /\ stage = "postprocessed"
    /\ LET r == summary_totals(df_post)
       IN  /\ summary' = r
           /\ err' = r.err
           /\ stage' = IF r.err = "none" THEN "summarized" ELSE "summary_failed"
    /\ UNCHANGED <<df, n_first, n_last, average_open_ended, ceiling,
                   nbr_pensioners, df_clean, df_pre, df_post, text, numbers,
                   stats, calls, dl>>

Next ==
    \/ Clean
    \/ Preprocess
    \/ Postprocess
    \/ Summarize
    \/ PostprocessRecords
    \/ CalculStatistics

Spec == Init /\ [][Next]_vars

-----------------------------------------------------------------------------
(* extract_numbers applied to a text *)

InitExtract ==
    /\ text \in Texts
    /\ numbers = <<>>
    /\ stage = "text"
    /\ err = "none"
    /\ df = NoFrame
    /\ n_first = 1
    /\ n_last = 6
    /\ average_open_ended = FromInt(8000)
    /\ ceiling = 2000
    /\ nbr_pensioners = 14900000
    /\ df_clean = NoFrame
    /\ df_pre = NoFrame
    /\ df_post = NoFrame
    /\ summary = NoSummary
    /\ stats = NoStatistics
    /\ calls = NoCalls
    /\ dl = NoDownload

Extract ==
    /\ stage = "text"
    /\ numbers' = ExtractedNumbers(text)
    /\ stage' = "extracted"
    /\ UNCHANGED <<df, err, n_first, n_last, average_open_ended, ceiling,
                   nbr_pensioners, df_clean, df_pre, df_post, text, summary,
                   stats, calls, dl>>

NextExtract == Extract

SpecExtract == InitExtract /\ [][NextExtract]_vars

-----------------------------------------------------------------------------
(* Invocations of pipeline_statistics_pension_ceilings on the shared df *)

Footer == RawRow("Tableau", NULL, NULL)

\* Sheets with a banner, the header, the brackets and six rows of notes.
ConcurrentSheets ==
    {[columns |-> RawColumns, dtypes |-> RawDTypes,
      rows |-> <<Footer, RawRow(LabelKey, "Hommes", "Ensemble")>> \o data
                 \o [k \in 1..DefaultNLast |-> Footer]] :
        data \in {<<RawRow("1-2", "50", "60"), RawRow("2-3", "50", "40")>>,
                  <<RawRow("1-2", "50", "60"), RawRow("2-3", "50", "40"),
                    RawRow("plus", "50", "2.5")>>}}

\* The parameters an invocation is given.
ConcurrentParams ==
    {[ceiling |-> 2, average_open_ended |-> FromInt(8), nbr_pensioners |-> 100],
     [ceiling |-> 0, average_open_ended |-> Rat(5, 2), nbr_pensioners |-> 200],
     [ceiling |-> -1, average_open_ended |-> FromInt(0), nbr_pensioners |-> 100],
     [ceiling |-> 2, average_open_ended |-> Inf, nbr_pensioners |-> 200]}

Invocations == 1..MaxCalls

IdleCall ==
    [pc |-> "idle", ceiling |-> 2000, average_open_ended |-> FromInt(8000),
     nbr_pensioners |-> 14900000, df_clean |-> NoFrame, df_pre |-> NoFrame,
     df_post |-> NoFrame, out |-> NoSummary]

InitConcurrent ==
    /\ df \in ConcurrentSheets
    /\ calls = [i \in Invocations |-> IdleCall]
    /\ stage = "serving"
    /\ err = "none"
    /\ n_first = DefaultNFirst
    /\ n_last = DefaultNLast
    /\ average_open_ended = FromInt(8000)
    /\ ceiling = 2000
    /\ nbr_pensioners = 14900000
    /\ df_clean = NoFrame
    /\ df_pre = NoFrame
    /\ df_post = NoFrame
    /\ text = <<>>
    /\ numbers = <<>>
    /\ summary = NoSummary
    /\ stats = NoStatistics
    /\ dl = NoDownload

concurrentFixed ==
    <<stage, err, n_first, n_last, average_open_ended, ceiling, nbr_pensioners,
      df_clean, df_pre, df_post, text, numbers, summary, stats, dl>>

\* The handler is invoked with its three parameters.
Call(i) ==
    /\ calls[i].pc = "idle"
    /\ \E p \in ConcurrentParams :
          calls' = [calls EXCEPT ![i] =
                      [@ EXCEPT !.pc = "called",
                                !.ceiling = p.ceiling,
                                !.average_open_ended = p.average_open_ended,
                                !.nbr_pensioners = p.nbr_pensioners]]
    /\ UNCHANGED <<df, concurrentFixed>>

\* df_result = pipeline_clean(df), on the global df.
CallClean(i) ==
    /\ calls[i].pc = "called"
    /\ LET r == call_pipeline_clean(df)
       IN  /\ df' = r.arg
           /\ calls' = [calls EXCEPT ![i] =
                 IF r.ret.err = "none"
                   THEN [@ EXCEPT !.pc = "cleaned", !.df_clean = r.ret.df]
                 ELSE [@ EXCEPT !.pc = "failed",
                                !.out = [NoSummary EXCEPT !.err = r.ret.err]]]
    /\ UNCHANGED concurrentFixed

CallPreprocess(i) ==
    /\ calls[i].pc = "cleaned"
    /\ LET r == call_pipeline_preprocess(calls[i].df_clean,
                                         calls[i].average_open_ended)
       IN  calls' = [calls EXCEPT ![i] =
                 IF r.ret.err = "none"
                   THEN [@ EXCEPT !.pc = "preprocessed", !.df_clean = r.arg,
                                  !.df_pre = r.ret.df]
                 ELSE [@ EXCEPT !.pc = "failed", !.df_clean = r.arg,
                                !.out = [NoSummary EXCEPT !.err = r.ret.err]]]
    /\ UNCHANGED <<df, concurrentFixed>>

CallPostprocess(i) ==
    /\ calls[i].pc = "preprocessed"
    /\ LET r == call_pipeline_postprocess(calls[i].df_pre, calls[i].ceiling,
                                          calls[i].nbr_pensioners)
       IN  calls' = [calls EXCEPT ![i] =
                 IF r.ret.err = "none"
                   THEN [@ EXCEPT !.pc = "postprocessed", !.df_pre = r.arg,
                                  !.df_post = r.ret.df]
                 ELSE [@ EXCEPT !.pc = "failed", !.df_pre = r.arg,
                                !.out = [NoSummary EXCEPT !.err = r.ret.err]]]
    /\ UNCHANGED <<df, concurrentFixed>>

\* The totals, and the return of the handler.
CallSummary(i) ==
    /\ calls[i].pc = "postprocessed"
    /\ LET r == summary_totals(calls[i].df_post)
       IN  calls' = [calls EXCEPT ![i] =
                 [@ EXCEPT !.pc = IF r.err = "none" THEN "returned" ELSE "failed",
                           !.out = r]]
    /\ UNCHANGED <<df, concurrentFixed>>

NextConcurrent ==
    \E i \in Invocations :
       \/ Call(i)
       \/ CallClean(i)
       \/ CallPreprocess(i)
       \/ CallPostprocess(i)
       \/ CallSummary(i)

SpecConcurrent == InitConcurrent /\ [][NextConcurrent]_vars

-----------------------------------------------------------------------------
(* The download command run on the data directory *)

Filenames == {"pension_ceilings.xlsx", "other.xlsx"}

InitDownload ==
    /\ dl \in {[pc |-> "start", before |-> f, files |-> f,
                 filename |-> "pension_ceilings.xlsx",
                 response |-> [exc |-> "none", status |-> 0, content |-> ""],
                 requests |-> 0, raised |-> "none", printed |-> "none",
                 logged_success |-> FALSE] : f \in [Filenames -> {Absent, "old"}]}
    /\ stage = "download"
    /\ err = "none"
    /\ df = NoFrame
    /\ n_first = 1
    /\ n_last = 6
    /\ average_open_ended = FromInt(8000)
    /\ ceiling = 2000
    /\ nbr_pensioners = 14900000
    /\ df_clean = NoFrame
    /\ df_pre = NoFrame
    /\ df_post = NoFrame
    /\ text = <<>>
    /\ numbers = <<>>
    /\ summary = NoSummary
    /\ stats = NoStatistics
    /\ calls = NoCalls

\* One run of the command, on the files the previous runs left.
Download ==
    /\ stage = "download"
    /\ \E filename \in Filenames, resp \in Responses :
          dl' = download(dl.files, filename, resp)
    /\ UNCHANGED <<df, stage, err, n_first, n_last, average_open_ended,
                   ceiling, nbr_pensioners, df_clean, df_pre, df_post, text,
                   numbers, summary, stats, calls>>

NextDownload == Download

SpecDownload == InitDownload /\ [][NextDownload]_vars

-----------------------------------------------------------------------------
(* Where a run stands *)

CleanRan == stage # "loaded" /\ stage # "text" /\ stage # "extracted"

CleanReturned == df_clean # NoFrame

PreprocessReturned == df_pre # NoFrame

PreprocessFailed == stage = "failed" /\ CleanReturned /\ ~PreprocessReturned

PreprocessRan == PreprocessReturned \/ PreprocessFailed

PostprocessReturned == stage = "postprocessed"

PostprocessFailed == stage = "failed" /\ PreprocessReturned

Finished == stage \in {"postprocessed", "failed"}

HasDigits(label) == label # NULL /\ ExtractedNumbers(Chars(label)) # <<>>

Parses(pct) == pct # NULL /\ ParseFloat(Chars(pct)).ok

-----------------------------------------------------------------------------
(* C1 *)

\* The rows of the sheet below the header, when the sheet has at least
\* n_first + n_last + 1 rows.
SheetHeader == df.rows[n_first + 1]

SheetData == SubSeq(df.rows, n_first + 2, Len(df.rows) - n_last)

\* The sheet is one the pipeline accepts: the header row is the header, and
\* every bracket has a label with digits, unlike the others, and a percentage
\* that is a number.
SheetWellFormed ==
    /\ SheetHeader = RawRow(LabelKey, "Hommes", "Ensemble")
    /\ \A i \in 1..Len(SheetData) :
          HasDigits(SheetData[i].c1) /\ Parses(SheetData[i].c3)
    /\ \A i, j \in 1..Len(SheetData) :
          i # j => SheetData[i].c1 # SheetData[j].c1

\* C1: for every raw table with at least n_first + n_last + 1 rows (a
\* well-formed one, and a finite average_open_ended), the three stages yield
\* a table with exactly len(raw) - n_first - n_last - 1 rows.
C1_RowCount ==
    ( /\ Finished
      /\ Len(df.rows) >= n_first + n_last + 1
      /\ SheetWellFormed
      /\ IsFinite(average_open_ended) )
    => /\ PostprocessReturned
       /\ Len(df_post.rows) = Len(df.rows) - n_first - n_last - 1

\* C1 away from the boundary: with at least one bracket row below the header
\* (n_first + n_last + 2 rows or more) the row count is as C1 states.
C1_RowCountNonEmpty ==
    ( /\ Finished
      /\ Len(df.rows) >= n_first + n_last + 2
      /\ SheetWellFormed
      /\ IsFinite(average_open_ended) )
    => /\ PostprocessReturned
       /\ Len(df_post.rows) = Len(df.rows) - n_first - n_last - 1

-----------------------------------------------------------------------------
(* C2 *)

\* C2: in every returned table, average_benefits of every row is the integer
\* max(average_pension - ceiling, 0) truncated toward zero: 0 when the pension
\* is at or below the ceiling, else the integer b with
\* b <= average_pension - ceiling < b + 1.
C2_CeilingRule ==
    PostprocessReturned =>
      \A i \in 1..Len(df_post.rows) :
         LET avg == df_pre.rows[i].average_pension
             b   == df_post.rows[i].average_benefits
         IN  /\ b \in Int
             /\ IF RatLe(avg, FromInt(ceiling)) THEN b = 0
                ELSE LET x == RatSub(avg, FromInt(ceiling))
                     IN  RatLe(FromInt(b), x) /\ RatGt(FromInt(b + 1), x)

\* A returned row whose excess over the ceiling has a fraction, dropped.
C2_Witness ==
    /\ PostprocessReturned
    /\ \E i \in 1..Len(df_post.rows) :
          LET x == RatSub(df_pre.rows[i].average_pension, FromInt(ceiling))
          IN  /\ x.d = 2
              /\ df_post.rows[i].average_benefits >= 1
              /\ RatGt(x, FromInt(df_post.rows[i].average_benefits))

-----------------------------------------------------------------------------
(* C3 *)

\* C3: every row of every returned table has
\* 0 <= average_benefits <= average_pension.
C3_BenefitsWithinPension ==
    PostprocessReturned =>
      \A i \in 1..Len(df_post.rows) :
         LET r == df_post.rows[i]
         IN  /\ r.average_benefits >= 0
             /\ RatLe(FromInt(r.average_benefits), r.average_pension)

-----------------------------------------------------------------------------
(* C4 *)

\* C4: in every returned table, a row above the ceiling has
\* average_pension_after_ceiling = ceiling, and a row at or below it has
\* average_pension_after_ceiling = average_pension.
C4_CappedAtCeiling ==
    PostprocessReturned =>
      \A i \in 1..Len(df_post.rows) :
         LET r == df_post.rows[i]
         IN  IF RatGt(r.average_pension, FromInt(ceiling))
               THEN r.average_pension_after_ceiling = FromInt(ceiling)
               ELSE r.average_pension_after_ceiling = r.average_pension

-----------------------------------------------------------------------------
(* C5 *)

\* C5: average_benefits is never negative, and when pipeline_postprocess is
\* run again on the same statistics with a ceiling at least as high, no row's
\* average_benefits increases.
C5_CeilingMonotone ==
    /\ [](PostprocessReturned =>
            \A i \in 1..Len(df_post.rows) : df_post.rows[i].average_benefits >= 0)
    /\ [][ (/\ stage = "postprocessed"
            /\ stage' = "postprocessed"
            /\ ceiling' >= ceiling)
           => \A i \in 1..Len(df_post.rows) :
                 df_post'.rows[i].average_benefits
                     <= df_post.rows[i].average_benefits ]_vars

\* A returned table with a positive benefit, under a ceiling that can be raised.
C5_Witness ==
    /\ PostprocessReturned
    /\ \E c \in CeilingSet : c > ceiling
    /\ \E i \in 1..Len(df_post.rows) : df_post.rows[i].average_benefits > 0

-----------------------------------------------------------------------------
(* C6 *)

\* The bracket records given to pipeline_preprocess are sound but for the
\* last label: every percentage is a number and every label but the last has
\* digits.
RecordsSoundButLast ==
    /\ Len(df_clean.rows) >= 1
    /\ \A i \in 1..Len(df_clean.rows) : Parses(df_clean.rows[i].percentage)
    /\ \A i \in 1..(Len(df_clean.rows) - 1) :
          HasDigits(df_clean.rows[i].slice_amount)

\* C6: for any non-empty bracket record sequence and any average_open_ended,
\* pipeline_preprocess returns a table whose last row has average_pension
\* equal to average_open_ended, whatever the last label is.
C6_OpenEndedOverride ==
    (PreprocessRan /\ RecordsSoundButLast)
    => /\ PreprocessReturned
       /\ df_pre.rows[Len(df_pre.rows)].average_pension = average_open_ended

-----------------------------------------------------------------------------
(* C7 *)

SomeLabelButLastWithoutDigits ==
    \E i \in 1..(Len(df_clean.rows) - 1) :
       ~HasDigits(df_clean.rows[i].slice_amount)

\* C7: pipeline_preprocess fails with an error and returns no table whenever
\* the label of a row other than the last contains no digits.
C7_NoDigitsFails ==
    (PreprocessRan /\ SomeLabelButLastWithoutDigits)
    => /\ PreprocessFailed
       /\ err # "none"
       /\ df_pre = NoFrame

\* pipeline_preprocess has failed on the empty mean of an empty label that is
\* not the last.
C7_Witness ==
    /\ PreprocessFailed
    /\ err = "StatisticsError"
    /\ \E i \in 1..(Len(df_clean.rows) - 1) : df_clean.rows[i].slice_amount = ""
    /\ HasDigits(df_clean.rows[Len(df_clean.rows)].slice_amount)

-----------------------------------------------------------------------------
(* C8, under SpecExtract *)

IsDigitAt(cs, p) == p \in 1..Len(cs) /\ cs[p] \in Digits

\* The first and last position of the maximal run of digits around p.
RunStart(cs, p) ==
    CHOOSE s \in 1..p :
        (\A j \in s..p : cs[j] \in Digits) /\ ~IsDigitAt(cs, s - 1)

RunEnd(cs, p) ==
    CHOOSE e \in p..Len(cs) :
        (\A j \in p..e : cs[j] \in Digits) /\ ~IsDigitAt(cs, e + 1)

\* The k-th smallest element of a set of positions.
Nth(P, k) == CHOOSE p \in P : Cardinality({q \in P : q < p}) = k - 1

RunStarts(cs) == {p \in 1..Len(cs) : IsDigitAt(cs, p) /\ RunStart(cs, p) = p}

\* The positions where a piece starts when every maximal run is cut, left to
\* right, into pieces of PatternMaxDigits digits.
PieceStarts(cs) ==
    {p \in 1..Len(cs) :
        IsDigitAt(cs, p) /\ (p - RunStart(cs, p)) % PatternMaxDigits = 0}

PieceEnd(cs, p) == Min(p + PatternMaxDigits - 1, RunEnd(cs, p))

\* C8: the extracted numbers are exactly the maximal runs of digits of the
\* text, left to right, as integers; none is a fragment of a longer run.
C8_MaximalRuns ==
    stage = "extracted" =>
      /\ Len(numbers) = Cardinality(RunStarts(text))
      /\ \A k \in 1..Len(numbers) :
            LET p == Nth(RunStarts(text), k)
            IN  numbers[k] = ToInt(SubSeq(text, p, RunEnd(text, p)))

\* C8 (amended): the extracted numbers are, left to right, the pieces of the
\* maximal runs of digits cut every 6 digits, as integers: a run of at most 6
\* digits is one number, a longer run yields its fragments.
C8_PiecesOfRuns ==
    stage = "extracted" =>
      /\ Len(numbers) = Cardinality(PieceStarts(text))
      /\ \A k \in 1..Len(numbers) :
            LET p == Nth(PieceStarts(text), k)
            IN  numbers[k] = ToInt(SubSeq(text, p, PieceEnd(text, p)))

\* A run of 7 digits has been extracted as two numbers.
C8_Witness ==
    /\ stage = "extracted"
    /\ Len(text) = 7
    /\ \A p \in 1..7 : text[p] \in Digits
    /\ Len(numbers) = 2
    /\ numbers[1] = ToInt(SubSeq(text, 1, 6))
    /\ numbers[2] = ToInt(SubSeq(text, 7, 7))
    /\ numbers[2] # 0

-----------------------------------------------------------------------------
(* C9 *)

\* C9: in the table pipeline_preprocess returns, every row but the last has
\* the mean of the integers of its own label as average_pension, and every
\* row has the value of its own percentage text, in the order of the records.
C9_OnlyLastOverridden ==
    PreprocessReturned =>
      /\ Len(df_pre.rows) = Len(df_clean.rows)
      /\ \A i \in 1..Len(df_pre.rows) :
            df_pre.rows[i].percentage
                = ParseFloat(Chars(df_clean.rows[i].percentage)).val
      /\ \A i \in 1..(Len(df_pre.rows) - 1) :
            LET nums == ExtractedNumbers(Chars(df_clean.rows[i].slice_amount))
            IN  /\ nums # <<>>
                /\ RatMul(df_pre.rows[i].average_pension, FromInt(Len(nums)))
                      = FromInt(SumSeq(nums))

\* Two rows with different percentages, the first keeping its own mean, the
\* last overridden by a value that is not its own mean.
C9_Witness ==
    /\ PreprocessReturned
    /\ Len(df_pre.rows) = 2
    /\ df_pre.rows[1].percentage # df_pre.rows[2].percentage
    /\ df_pre.rows[1].average_pension # average_open_ended
    /\ df_pre.rows[2].average_pension = average_open_ended
    /\ LET nums == ExtractedNumbers(Chars(df_clean.rows[2].slice_amount))
       IN  nums # <<>> /\ Rat(SumSeq(nums), Len(nums)) # average_open_ended

-----------------------------------------------------------------------------
(* C10 *)

\* The rows pipeline_clean keeps: the promoted header, then the data.
Kept == node_drop_lines(df, n_first, n_last).rows

\* The names the promoted header gives the columns.
HeaderNames == [i \in 1..Len(df.columns) |-> Str(Kept[1][df.columns[i]])]

\* After header promotion and renaming, a target column is absent.
TargetAbsent ==
    \/ Kept = <<>>
    \/ \E k \in DOMAIN MAPPING_COLUMNS : k \notin Range(HeaderNames)

HeaderNamesDistinct == Cardinality(Range(HeaderNames)) = Len(HeaderNames)

\* The column of the sheet that the header names k.
ColumnNamed(k) ==
    CHOOSE c \in Range(df.columns) : Str(Kept[1][c]) = k

KeptData == Tail(Kept)

DuplicateLabel ==
    \E i, j \in 1..Len(KeptData) :
       i # j /\ KeptData[i][ColumnNamed(LabelKey)] = KeptData[j][ColumnNamed(LabelKey)]

NullTargetCell ==
    \E i \in 1..Len(KeptData) :
       \/ KeptData[i][ColumnNamed(LabelKey)] = NULL
       \/ KeptData[i][ColumnNamed("Ensemble")] = NULL

-----------------------------------------------------------------------------
(* C11 *)

\* The column of the sheet whose cell in the header row reads k.
SheetColumn(k) ==
    CHOOSE c \in Range(df.columns) : Str(SheetHeader[c]) = k

\* C11: for a raw table with at least n_first + n_last + 1 rows, the table
\* pipeline_clean returns has exactly the two columns slice_amount (the
\* bracket label) and percentage, and its rows are the raw rows n_first + 2 to
\* len(raw) - n_last in their order, each reduced to the cells of the two
\* columns that the raw row n_first + 1, the promoted header, names by the keys
\* of the mapping; the header row is not among the data.
C11_CleanProjection ==
    (CleanReturned /\ Len(df.rows) >= n_first + n_last + 1) =>
      /\ df_clean.columns = <<"slice_amount", "percentage">>
      /\ Len(df_clean.rows) = Len(df.rows) - n_first - n_last - 1
      /\ \E c \in Range(df.columns) : Str(SheetHeader[c]) = LabelKey
      /\ \E c \in Range(df.columns) : Str(SheetHeader[c]) = "Ensemble"
      /\ \A i \in 1..Len(df_clean.rows) :
            /\ DOMAIN df_clean.rows[i] = {"slice_amount", "percentage"}
            /\ df_clean.rows[i].slice_amount
                  = df.rows[n_first + 1 + i][SheetColumn(LabelKey)]
            /\ df_clean.rows[i].percentage
                  = df.rows[n_first + 1 + i][SheetColumn("Ensemble")]

\* pipeline_clean has returned two brackets from a sheet with a banner row
\* dropped at the top and a row dropped at the bottom.
C11_Witness ==
    /\ CleanReturned
    /\ n_first = 1
    /\ n_last = 1
    /\ Len(df.rows) = 4
    /\ Len(df_clean.rows) = 1
    /\ df.rows[1] # df.rows[2]
    /\ df_clean.rows[1].slice_amount = "1-2"

-----------------------------------------------------------------------------
(* C18 *)

\* The rows n_first + 1 to h - n_last of the sheet: none when
\* n_first + n_last >= h.
RowsBetween ==
    IF n_first + n_last >= Len(df.rows) THEN <<>>
    ELSE SubSeq(df.rows, n_first + 1, Len(df.rows) - n_last)

\* C18: for every table of height h and all n_first, n_last >= 0,
\* node_drop_lines returns exactly the rows n_first + 1 to h - n_last in their
\* order, which is no row whenever n_first + n_last >= h, and pipeline_clean
\* then fails on the empty table.
C18_DropLines ==
    CleanRan =>
      /\ Kept = RowsBetween
      /\ n_first + n_last >= Len(df.rows) => ~CleanReturned /\ err = "IndexError"

-----------------------------------------------------------------------------
(* C13 *)

\* Two brackets with percentages 60/40 and average pensions 1500/3000.
ExampleStatistics ==
    [columns |-> <<"percentage", "average_pension">>,
     dtypes |-> <<"Float64", "Float64">>,
     rows |-> << [percentage |-> FromInt(60), average_pension |-> FromInt(1500)],
                 [percentage |-> FromInt(40), average_pension |-> FromInt(3000)] >>]

ExampleResult == pipeline_postprocess(ExampleStatistics, 2000, 100)

\* The example of C13: ceiling 2000, population 100.
ExampleHolds ==
    LET rows == ExampleResult.df.rows
    IN  /\ ExampleResult.err = "none"
        /\ Len(rows) = 2
        /\ rows[1].number_pensioners = FromInt(60)
        /\ rows[2].number_pensioners = FromInt(40)
        /\ rows[1].average_benefits = 0
        /\ rows[2].average_benefits = 1000
        /\ rows[1].total_average_benefits = FromInt(0)
        /\ rows[2].total_average_benefits = FromInt(40000)
        /\ rows[1].total_average_pension = FromInt(90000)
        /\ rows[2].total_average_pension = FromInt(120000)
        /\ SumRows(rows, "total_average_benefits") = FromInt(40000)
        /\ SumRows(rows, "total_average_pension") = FromInt(210000)
        /\ RatDiv(SumRows(rows, "total_average_benefits"),
                  SumRows(rows, "total_average_pension")) = Rat(40000, 210000)

\* C13: in every table pipeline_postprocess returns, each row has
\* number_pensioners = percentage / 100 * nbr_pensioners,
\* total_average_benefits = average_benefits * number_pensioners and
\* total_average_pension = average_pension * number_pensioners (stated on
\* numerators and denominators); and the two-bracket example gives 60/40
\* pensioners, benefits 0/40000, pension 90000/120000, ratio 40000/210000.
C13_Totals ==
    /\ ExampleHolds
    /\ PostprocessReturned =>
         \A i \in 1..Len(df_post.rows) :
            LET r   == df_post.rows[i]
                np  == r.number_pensioners
                tab == r.total_average_benefits
                tap == r.total_average_pension
            IN  /\ r.percentage = df_pre.rows[i].percentage
                /\ r.average_pension = df_pre.rows[i].average_pension
                /\ np.d > 0 /\ tab.d > 0 /\ tap.d > 0
                /\ np.n * 100 * r.percentage.d
                      = r.percentage.n * nbr_pensioners * np.d
                /\ tab.n * np.d = r.average_benefits * np.n * tab.d
                /\ tap.n * r.average_pension.d * np.d
                      = r.average_pension.n * np.n * tap.d

\* Two brackets of 60 % and 40 % of 100 pensioners, the second above the
\* ceiling.
C13_Witness ==
    /\ PostprocessReturned
    /\ nbr_pensioners = 100
    /\ Len(df_post.rows) = 2
    /\ df_post.rows[1].number_pensioners = FromInt(60)
    /\ df_post.rows[2].number_pensioners = FromInt(40)
    /\ df_post.rows[2].average_benefits > 0
    /\ df_post.rows[2].total_average_benefits.n > 0

-----------------------------------------------------------------------------
(* C12 *)

SummaryRan == stage \in {"summarized", "summary_failed"}

MonthlyPension == SumRows(df_post.rows, "total_average_pension")

MonthlyBenefits == SumRows(df_post.rows, "total_average_benefits")

C12_RatioReached ==
    /\ stage = "summarized"
    /\ Len(df_post.rows) = 2
    /\ summary.percentage_benefits.n > 0
    /\ summary.total_benefits # MonthlyBenefits

-----------------------------------------------------------------------------
(* C14 *)

\* C14: pipeline_postprocess rejects with a SchemaError a table that has not
\* the columns of the statistics, and every table it returns satisfies its
\* declared output schema.
C14_SchemaContract ==
    /\ stage = "postprocess_failed" => err = "SchemaError"
    /\ PostprocessReturned => PostSchemaOk(df_post)

-----------------------------------------------------------------------------
(* C16 *)

StatisticsRan == stage \in {"statistics", "statistics_failed"}

\* The table of statistics is one pipeline_postprocess accepts, with a total
\* pension that is not zero.
StatisticsValid ==
    LET r == pipeline_postprocess(df_pre, ceiling, nbr_pensioners)
    IN  /\ PreSchemaOk(df_pre)
        /\ r.err = "none"
        /\ SumRows(r.df.rows, "total_average_pension").n # 0

\* C16: on a valid table of statistics whose total pension is not zero,
\* calcul_statistics_pension_ceilings does not end in an error and returns
\* the five values, each yearly total being 12 times the monthly one.
C16_Statistics ==
    (StatisticsRan /\ StatisticsValid) =>
      /\ stage = "statistics"
      /\ stats.err = "none"
      /\ stats.total_benefits_year
            = RatMul(FromInt(12), stats.total_benefits_month)
      /\ stats.total_pension_year
            = RatMul(FromInt(12), stats.total_pension_month)

-----------------------------------------------------------------------------
(* C17, under SpecDownload *)

DownloadRan == dl.pc = "done"

FileWritten == dl.files[dl.filename] # dl.before[dl.filename]

\* C17: when the request fails the download raises the error of the request
\* and writes no file, and the command reports success only when the file was
\* written; when the target file exists the command fails with
\* FileExistsError before any request and leaves the files as they were.
C17_DownloadErrors ==
    DownloadRan =>
      /\ (dl.requests = 1 /\ RequestFails(dl.response)) =>
            /\ dl.raised = "RequestException"
            /\ dl.files = dl.before
      /\ dl.logged_success => FileWritten
      /\ dl.before[dl.filename] # Absent =>
            /\ dl.raised = "FileExistsError"
            /\ dl.requests = 0
            /\ dl.files = dl.before

\* The part of C17 about an existing file: the command fails with
\* FileExistsError, sends no request and leaves the files as they were.
C17_ExistingFile ==
    (DownloadRan /\ dl.before[dl.filename] # Absent) =>
      /\ dl.raised = "FileExistsError"
      /\ dl.requests = 0
      /\ dl.files = dl.before
      /\ ~dl.logged_success

-----------------------------------------------------------------------------
(* C15, under SpecConcurrent *)

CallEnded(i) == calls[i].pc \in {"returned", "failed"}

====
